---------------------------- MODULE Spec2Model ----------------------------
(***************************************************************************)
(* Resilience layer of the API gateway: the Redis-backed circuit breaker   *)
(* (app/gateway/circuit_breaker.py), the sliding-window rate limiter       *)
(* (app/gateway/rate_limiter.py), the retrying HTTP client                 *)
(* (app/gateway/retry.py) and the /proxy handler that composes them        *)
(* (app/main.py).                                                          *)
(*                                                                         *)
(* Time is counted in whole seconds: `now` is the value time.time()        *)
(* returns.  Redis holds strings; a number written to Redis is modelled as *)
(* its decimal digit string (Str) and read back by parsing it (Num).       *)
(***************************************************************************)
EXTENDS Integers, Sequences, FiniteSets, TLC

(***************************************************************************)
(* Bounds of the model.                                                    *)
(***************************************************************************)
MaxTime == 6
MaxThreshold == 3
MaxTimeout == 2
MaxFailureCalls == 4
MaxLimit == 2
MaxWindow == 2
MaxRateCalls == 4
MaxRetries == 3
MaxBaseDelay == 2
NumRequests == 2
NumCallers == 2
MaxStoreCalls == 5
MaxStoreTime == 3

(***************************************************************************)
(* Defaults of app/core/config.py, used for the settings a specification   *)
(* does not vary.                                                          *)
(***************************************************************************)
DEFAULT_RATE_LIMIT_REQUESTS == 100
DEFAULT_RATE_LIMIT_WINDOW_SEC == 60
DEFAULT_CIRCUIT_FAILURE_THRESHOLD == 5
DEFAULT_CIRCUIT_RECOVERY_TIMEOUT == 30

Clients == {"10.0.0.1", "10.0.0.2"}

\* defaults of retry_request's parameters, which proxy_request relies on
DEFAULT_MAX_RETRIES == 3
DEFAULT_BASE_DELAY == 1

Requests == 1..NumRequests
\* processes (workers) that call the breaker of one service concurrently
Callers == 1..NumCallers

VARIABLES
    settings,       \* app.core.config.settings, loaded once at start-up
    now,            \* time.time(), in seconds
    redis,          \* the three circuit:{service}:* keys of the shared store
    last,           \* history: the most recent breaker call, its inputs and result
    nfail,          \* history: number of record_failure calls made so far
    succeeded,      \* history: some record_success call has been made
    last_fail_at,   \* history: time of the most recent record_failure call
    zsets,          \* per client, the sorted set rate_limit:{client_ip}
    expiry,         \* per client, the time at which that key expires
    rl_log,         \* history: per client, the times of its is_rate_limited calls
    rl_last,        \* history: per client, what its latest is_rate_limited call returned
    req,            \* per request, the locals of retry_request and proxy_request
    finished,       \* history: the /proxy request that ended most recently
    caller,         \* per process, its position inside the breaker method it runs
    ended,          \* history: the breaker call of a process that ended most recently
    opened,         \* history: the latest completed record_failure that opened the breaker
    ncalls          \* history: number of breaker calls begun by the processes

breakerVars == <<redis, last, nfail, succeeded, last_fail_at>>
rateVars == <<zsets, expiry, rl_log, rl_last>>

requestVars == <<req, finished>>

storeVars == <<caller, ended, opened, ncalls>>

vars == <<settings, now, breakerVars, rateVars, requestVars, storeVars>>

(***************************************************************************)
(* Values held by the store.                                               *)
(***************************************************************************)
\* redis_client.get of a key that was never set (Python None), for the state key
None == "None"
\* the same for a key that holds a number: a written number is never the empty string
NoValue == <<>>

\* str(n) for a non-negative integer: its decimal digits, most significant first
RECURSIVE Str(_)
Str(n) == IF n < 10 THEN <<n>> ELSE Append(Str(n \div 10), n % 10)

\* int(s) / float(s) of a digit string
RECURSIVE Num(_)
Num(s) == IF Len(s) = 1 THEN s[1]
          ELSE 10 * Num(SubSeq(s, 1, Len(s) - 1)) + s[Len(s)]

\* Python truthiness of a value read from a numeric key (None and "" are falsy)
Truthy(v) == v # NoValue

(***************************************************************************)
(* Store primitives used by the breaker.                                   *)
(***************************************************************************)
redis_get(r, key) == r[key]

redis_set(r, key, value) == [r EXCEPT ![key] = value]

\* INCR: a missing key counts as 0; returns the store and the new value
redis_incr(r, key) ==
    LET v == IF r[key] = NoValue THEN 1 ELSE Num(r[key]) + 1
    IN  [store |-> [r EXCEPT ![key] = Str(v)], value |-> v]

\* the store before any key of the service has been written
FreshStore == [state_key |-> None, failure_key |-> NoValue, opened_at_key |-> NoValue]

(***************************************************************************)
(* CircuitBreaker (app/gateway/circuit_breaker.py).  Each method is a      *)
(* function of the store, the settings and the time of the call.           *)
(***************************************************************************)
\* is_open with the timeout comparison turned around to >=
is_open_ge(r, cfg, t) ==
    LET state == redis_get(r, "state_key")
        opened_at == redis_get(r, "opened_at_key")
    IN  IF state = "OPEN"
        THEN IF Truthy(opened_at) /\ (t - Num(opened_at)) >= cfg.CIRCUIT_RECOVERY_TIMEOUT
             THEN [ret |-> FALSE, store |-> redis_set(r, "state_key", "HALF_OPEN")]
             ELSE [ret |-> TRUE, store |-> r]
        ELSE [ret |-> FALSE, store |-> r]

\* is_open that admits the caller after the timeout without writing HALF_OPEN
is_open_nowrite(r, cfg, t) ==
    LET state == redis_get(r, "state_key")
        opened_at == redis_get(r, "opened_at_key")
    IN  IF state = "OPEN"
        THEN IF Truthy(opened_at) /\ (t - Num(opened_at)) > cfg.CIRCUIT_RECOVERY_TIMEOUT
             THEN [ret |-> FALSE, store |-> r]
             ELSE [ret |-> TRUE, store |-> r]
        ELSE [ret |-> FALSE, store |-> r]

\* is_open that clears the failure count when it moves to HALF_OPEN
is_open_resetcount(r, cfg, t) ==
    LET state == redis_get(r, "state_key")
        opened_at == redis_get(r, "opened_at_key")
    IN  IF state = "OPEN"
        THEN IF Truthy(opened_at) /\ (t - Num(opened_at)) > cfg.CIRCUIT_RECOVERY_TIMEOUT
             THEN [ret |-> FALSE,
                   store |-> redis_set(redis_set(r, "failure_key", Str(0)),
                                       "state_key", "HALF_OPEN")]
             ELSE [ret |-> TRUE, store |-> r]
        ELSE [ret |-> FALSE, store |-> r]

\* is_open for which an open breaker never times out
is_open_forever(r, cfg, t) ==
    LET state == redis_get(r, "state_key")
    IN  IF state = "OPEN"
        THEN [ret |-> TRUE, store |-> r]
        ELSE [ret |-> FALSE, store |-> r]

is_open(r, cfg, t) ==
    LET state == redis_get(r, "state_key")
        opened_at == redis_get(r, "opened_at_key")
    IN  IF state = "OPEN"
        THEN IF Truthy(opened_at) /\ (t - Num(opened_at)) > cfg.CIRCUIT_RECOVERY_TIMEOUT
             THEN [ret |-> FALSE, store |-> redis_set(r, "state_key", "HALF_OPEN")]
             ELSE [ret |-> TRUE, store |-> r]
        ELSE [ret |-> FALSE, store |-> r]

\* record_failure that opens only when the count exceeds the threshold
record_failure_gt(r, cfg, t) ==
    LET inc == redis_incr(r, "failure_key")
    IN  IF inc.value > cfg.CIRCUIT_FAILURE_THRESHOLD
        THEN redis_set(redis_set(inc.store, "state_key", "OPEN"), "opened_at_key", Str(t))
        ELSE inc.store

\* record_failure that stamps opened_at only when the state was not OPEN
record_failure_stamponce(r, cfg, t) ==
    LET inc == redis_incr(r, "failure_key")
    IN  IF inc.value >= cfg.CIRCUIT_FAILURE_THRESHOLD
        THEN IF redis_get(r, "state_key") = "OPEN"
             THEN inc.store
             ELSE redis_set(redis_set(inc.store, "state_key", "OPEN"), "opened_at_key", Str(t))
        ELSE inc.store

record_failure(r, cfg, t) ==
    LET inc == redis_incr(r, "failure_key")
    IN  IF inc.value >= cfg.CIRCUIT_FAILURE_THRESHOLD
        THEN redis_set(redis_set(inc.store, "state_key", "OPEN"), "opened_at_key", Str(t))
        ELSE inc.store

\* record_success that closes the breaker but keeps the failure count
record_success_keepcount(r) == redis_set(r, "state_key", "CLOSED")

record_success(r) ==
    redis_set(redis_set(r, "failure_key", Str(0)), "state_key", "CLOSED")

\* the test of record_failure on the value INCR returned, always true
threshold_reached_always(failures, cfg) == TRUE

\* the test of record_failure on the value INCR returned
threshold_reached(failures, cfg) == failures >= cfg.CIRCUIT_FAILURE_THRESHOLD

\* the test of is_open on the opened_at it read
timeout_elapsed(opened_at, cfg, t) ==
    Truthy(opened_at) /\ (t - Num(opened_at)) > cfg.CIRCUIT_RECOVERY_TIMEOUT


(***************************************************************************)
(* Sorted-set primitives and is_rate_limited                               *)
(* (app/gateway/rate_limiter.py).  A sorted set is a set of                *)
(* [member, score] entries with distinct members.                          *)
(***************************************************************************)
\* the key has no time to live
NoExpiry == -1

\* ZREMRANGEBYSCORE key min max: drops the entries with min <= score <= max
zremrangebyscore(z, min, max) == {m \in z : ~(min <= m.score /\ m.score <= max)}

\* ZADD key {member: score}: a member already present only has its score updated
zadd(z, member, score) ==
    {m \in z : m.member # member} \cup {[member |-> member, score |-> score]}

\* ZCARD key
zcard(z) == Cardinality(z)

\* the value of a key whose time to live may have run out
Live(z, exp, t) == IF exp # NoExpiry /\ t >= exp THEN {} ELSE z

\* is_rate_limited whose entry is unique per call (the member is the timestamp
\* followed by the number of entries already in the window), so every call in
\* the window is counted
is_rate_limited_percall(z, exp, cfg, t) ==
    LET current_ts == t
        purged == zremrangebyscore(Live(z, exp, t), 0,
                                   current_ts - cfg.RATE_LIMIT_WINDOW_SEC)
        added == zadd(purged, Str(current_ts) \o <<-1>> \o Str(zcard(purged)), current_ts)
        request_count == zcard(added)
    IN  [ret |-> request_count > cfg.RATE_LIMIT_REQUESTS,
         zset |-> added,
         expiry |-> t + cfg.RATE_LIMIT_WINDOW_SEC + 1,
         count |-> request_count]

\* the atomic pipeline of is_rate_limited for one client whose key holds z and
\* expires at exp, run at time t
is_rate_limited(z, exp, cfg, t) ==
    LET current_ts == t
        purged == zremrangebyscore(Live(z, exp, t), 0,
                                   current_ts - cfg.RATE_LIMIT_WINDOW_SEC)
        added == zadd(purged, Str(current_ts), current_ts)
        request_count == zcard(added)
    IN  [ret |-> request_count > cfg.RATE_LIMIT_REQUESTS,
         zset |-> added,
         expiry |-> t + cfg.RATE_LIMIT_WINDOW_SEC + 1,
         count |-> request_count]


(***************************************************************************)
(* retry_request (app/gateway/retry.py).  A request record holds the       *)
(* locals of one call; the call is suspended at `await client.get` (pc =   *)
(* "get") and at `await asyncio.sleep` (pc = "sleep").                     *)
(***************************************************************************)
Statuses == {200, 404, 500}
Bodies == {"json", "text"}

\* what `await client.get(url)` can produce: a response, or httpx.RequestError
\* (connection refused, timeout, ...)
Responses == [kind : {"response"}, status : Statuses, body : Bodies]
RequestError == [kind |-> "RequestError", status |-> 0, body |-> "none"]
Outcomes == Responses \cup {RequestError}

IsResponse(o) == o.kind = "response"

NoResponse == [kind |-> "none", status |-> 0, body |-> "none"]
\* an exception: its type and the attempt that produced it
NoException == [type |-> "None", attempt |-> -1]

IdleRequest ==
    [pc |-> "idle", max_retries |-> 0, base_delay |-> 0, attempt |-> 0,
     outcomes |-> <<>>, waits |-> <<>>, wake_at |-> 0,
     last_exception |-> NoException,
     retry |-> "none", response |-> NoResponse, raised |-> NoException,
     admitted |-> "pending", n_record_failure |-> 0, n_record_success |-> 0,
     status |-> 0, detail |-> "none", pre |-> FreshStore, post |-> FreshStore,
     client |-> "none", rate_limited |-> "unchecked"]

\* the slot of a /proxy request that has ended
EndedRequest == [IdleRequest EXCEPT !.pc = "done"]

RequestsIdle ==
    /\ req = [r \in Requests |-> IdleRequest]
    /\ finished = IdleRequest

\* entering retry_request: line 9 and the first evaluation of the loop header;
\* with an empty range the function falls through to `raise last_exception`,
\* which raises TypeError because last_exception is None
retry_begin(q, max_retries, base_delay) ==
    LET q0 == [q EXCEPT !.max_retries = max_retries, !.base_delay = base_delay,
                        !.attempt = 0, !.last_exception = NoException]
    IN  IF max_retries >= 1
        THEN [q0 EXCEPT !.pc = "get"]
        ELSE [q0 EXCEPT !.pc = "done", !.retry = "raised",
                        !.raised = [type |-> "TypeError", attempt |-> -1]]

\* retry_request that returns only 2xx/3xx responses and raises on 4xx as well
retry_step_lt400(q, o, t) ==
    LET q1 == [q EXCEPT !.outcomes = Append(@, o)]
        e == [type |-> "RequestError", attempt |-> q.attempt]
    IN  IF o.kind = "response"
        THEN IF o.status < 400
             THEN [q1 EXCEPT !.pc = "done", !.retry = "returned", !.response = o]
             ELSE [q1 EXCEPT !.pc = "done", !.retry = "raised",
                             !.raised = [type |-> "Exception", attempt |-> q.attempt]]
        ELSE IF q.attempt < q.max_retries - 1
             THEN [q1 EXCEPT !.last_exception = e, !.pc = "sleep",
                             !.waits = Append(@, q.base_delay * (2 ^ q.attempt)),
                             !.wake_at = t + q.base_delay * (2 ^ q.attempt)]
             ELSE [q1 EXCEPT !.last_exception = e, !.pc = "done",
                             !.retry = "raised", !.raised = e]

\* retry_request that also sleeps after the final attempt before raising
retry_step_sleeplast(q, o, t) ==
    LET q1 == [q EXCEPT !.outcomes = Append(@, o)]
        e == [type |-> "RequestError", attempt |-> q.attempt]
    IN  IF o.kind = "response"
        THEN IF o.status < 500
             THEN [q1 EXCEPT !.pc = "done", !.retry = "returned", !.response = o]
             ELSE [q1 EXCEPT !.pc = "done", !.retry = "raised",
                             !.raised = [type |-> "Exception", attempt |-> q.attempt]]
        ELSE [q1 EXCEPT !.last_exception = e, !.pc = "sleep",
                        !.waits = Append(@, q.base_delay * (2 ^ q.attempt)),
                        !.wake_at = t + q.base_delay * (2 ^ q.attempt)]

\* lines 12-23 for the attempt q.attempt once client.get has produced o at
\* time t.  A response below 500 is returned.  A response of 500 or more
\* raises a plain Exception, which `except (httpx.RequestError,
\* httpx.HTTPStatusError)` does not catch, so it leaves retry_request at once.
\* A RequestError is caught: it is remembered, and either the coroutine sleeps
\* or, after the last attempt, the loop ends and line 24 raises it.
retry_step(q, o, t) ==
    LET q1 == [q EXCEPT !.outcomes = Append(@, o)]
        e == [type |-> "RequestError", attempt |-> q.attempt]
    IN  IF o.kind = "response"
        THEN IF o.status < 500
             THEN [q1 EXCEPT !.pc = "done", !.retry = "returned", !.response = o]
             ELSE [q1 EXCEPT !.pc = "done", !.retry = "raised",
                             !.raised = [type |-> "Exception", attempt |-> q.attempt]]
        ELSE IF q.attempt < q.max_retries - 1
             THEN [q1 EXCEPT !.last_exception = e, !.pc = "sleep",
                             !.waits = Append(@, q.base_delay * (2 ^ q.attempt)),
                             !.wake_at = t + q.base_delay * (2 ^ q.attempt)]
             ELSE [q1 EXCEPT !.last_exception = e, !.pc = "done",
                             !.retry = "raised", !.raised = e]

\* asyncio.sleep(delay) is over: the loop goes to its next attempt; a sleep
\* after the last attempt would end the loop and raise last_exception
retry_wake(q) ==
    IF q.attempt < q.max_retries - 1
    THEN [q EXCEPT !.pc = "get", !.attempt = @ + 1, !.wake_at = 0]
    ELSE [q EXCEPT !.pc = "done", !.retry = "raised", !.raised = q.last_exception,
                   !.wake_at = 0]


(***************************************************************************)
(* proxy_request (app/main.py).  The handler runs without suspension       *)
(* except inside `await retry_request(...)`: the breaker's methods are     *)
(* synchronous calls.                                                      *)
(***************************************************************************)
\* proxy_request that records a failure when it finds the breaker open
proxy_start_punish(q, store, cfg, t) ==
    LET res == is_open(store, cfg, t)
    IN  IF res.ret
        THEN [req |-> [q EXCEPT !.pc = "done", !.admitted = "blocked",
                                !.status = 503, !.detail = "circuit_breaker_open",
                                !.n_record_failure = @ + 1,
                                !.pre = store],
              store |-> record_failure(res.store, cfg, t)]
        ELSE [req |-> retry_begin([q EXCEPT !.admitted = "admitted"],
                                  DEFAULT_MAX_RETRIES, DEFAULT_BASE_DELAY),
              store |-> res.store]

\* lines 98-114: the breaker is asked; an open breaker ends the request with
\* 503 circuit_breaker_open (raised outside the try block), otherwise
\* retry_request is entered with its default parameters
proxy_start(q, store, cfg, t) ==
    LET res == is_open(store, cfg, t)
    IN  IF res.ret
        THEN [req |-> [q EXCEPT !.pc = "done", !.admitted = "blocked",
                                !.status = 503, !.detail = "circuit_breaker_open",
                                !.pre = store],
              store |-> res.store]
        ELSE [req |-> retry_begin([q EXCEPT !.admitted = "admitted"],
                                  DEFAULT_MAX_RETRIES, DEFAULT_BASE_DELAY),
              store |-> res.store]

\* lines 114-153 once retry_request has ended (q.retry says how), at time t.
\* Every exception raised inside the try block, the HTTPException of line 118
\* and a failing response.json() included, lands in `except Exception`, which
\* calls record_failure and answers 503 request_failed.
proxy_finish(q, store, cfg, t) ==
    LET failed(qq, st) ==
            [req |-> [qq EXCEPT !.n_record_failure = @ + 1,
                                !.status = 503, !.detail = "request_failed"],
             store |-> record_failure(st, cfg, t)]
    IN  IF q.retry = "raised"
        THEN failed(q, store)
        ELSE IF q.response.status >= 500
             THEN failed([q EXCEPT !.n_record_failure = @ + 1],
                         record_failure(store, cfg, t))
             ELSE LET q1 == [q EXCEPT !.n_record_success = @ + 1]
                      s1 == record_success(store)
                  IN  IF q.response.body = "json"
                      THEN [req |-> [q1 EXCEPT !.status = 200, !.detail = "success"],
                            store |-> s1]
                      ELSE failed(q1, s1)

(***************************************************************************)
(* Direct calls of the breaker's methods, one call per step.               *)
(***************************************************************************)
NoCall == [op |-> "none", pre |-> FreshStore, at |-> 0, ret |-> FALSE]

BreakerSettings ==
    [RATE_LIMIT_REQUESTS : {DEFAULT_RATE_LIMIT_REQUESTS},
     RATE_LIMIT_WINDOW_SEC : {DEFAULT_RATE_LIMIT_WINDOW_SEC},
     CIRCUIT_FAILURE_THRESHOLD : 1..MaxThreshold,
     CIRCUIT_RECOVERY_TIMEOUT : 1..MaxTimeout]

\* a process that is inside no breaker method.  The history fields are kept
\* for record_failure calls: `clean` says whether no record_success was under
\* way when the call began or has begun since; for a call that found the
\* breaker HALF_OPEN, `pre` is the store as the call found it, `value` what
\* INCR returned and `alone` whether no other process has touched the store
\* since the call began.
IdleCaller ==
    [op |-> "none", pc |-> "idle", pre |-> FreshStore, value |-> 0,
     alone |-> TRUE, clean |-> TRUE]

NoEndedCall ==
    [op |-> "none", pre |-> FreshStore, post |-> FreshStore, at |-> 0, value |-> 0]

NeverOpened == [set |-> FALSE, at |-> 0, clean |-> TRUE]

\* no process has called the breaker
StoreIdle ==
    /\ caller = [p \in Callers |-> IdleCaller]
    /\ ended = NoEndedCall
    /\ opened = NeverOpened
    /\ ncalls = 0

NoResult == [ret |-> FALSE, zset |-> {}, expiry |-> NoExpiry, count |-> 0]

\* no client has called the rate limiter
RateIdle ==
    /\ zsets = [c \in Clients |-> {}]
    /\ expiry = [c \in Clients |-> NoExpiry]
    /\ rl_log = [c \in Clients |-> <<>>]
    /\ rl_last = [c \in Clients |-> NoResult]

\* no breaker method has been called on the service
BreakerIdle ==
    /\ redis = FreshStore
    /\ last = NoCall
    /\ nfail = 0
    /\ succeeded = FALSE
    /\ last_fail_at = 0

InitBreaker ==
    /\ settings \in BreakerSettings
    /\ now = 0
    /\ BreakerIdle
    /\ RateIdle
    /\ RequestsIdle
    /\ StoreIdle

Tick ==
    /\ now < MaxTime
    /\ now' = now + 1
    /\ UNCHANGED <<settings, breakerVars, rateVars, requestVars, storeVars>>

CallIsOpen ==
    LET res == is_open(redis, settings, now)
    IN  /\ redis' = res.store
        /\ last' = [op |-> "is_open", pre |-> redis, at |-> now, ret |-> res.ret]
        /\ UNCHANGED <<settings, now, nfail, succeeded, last_fail_at, rateVars, requestVars, storeVars>>

CallRecordFailure ==
    /\ nfail < MaxFailureCalls
    /\ redis' = record_failure(redis, settings, now)
    /\ last' = [op |-> "record_failure", pre |-> redis, at |-> now, ret |-> FALSE]
    /\ nfail' = nfail + 1
    /\ last_fail_at' = now
    /\ UNCHANGED <<settings, now, succeeded, rateVars, requestVars, storeVars>>

CallRecordSuccess ==
    /\ redis' = record_success(redis)
    /\ last' = [op |-> "record_success", pre |-> redis, at |-> now, ret |-> FALSE]
    /\ succeeded' = TRUE
    /\ UNCHANGED <<settings, now, nfail, last_fail_at, rateVars, requestVars, storeVars>>

NextBreaker ==
    \/ Tick
    \/ CallIsOpen
    \/ CallRecordFailure
    \/ CallRecordSuccess

SpecBreaker == InitBreaker /\ [][NextBreaker]_vars


(***************************************************************************)
(* The rate limiter called by clients at arbitrary whole-second times.     *)
(***************************************************************************)
RateSettings ==
    [RATE_LIMIT_REQUESTS : 1..MaxLimit,
     RATE_LIMIT_WINDOW_SEC : 1..MaxWindow,
     CIRCUIT_FAILURE_THRESHOLD : {DEFAULT_CIRCUIT_FAILURE_THRESHOLD},
     CIRCUIT_RECOVERY_TIMEOUT : {DEFAULT_CIRCUIT_RECOVERY_TIMEOUT}]

InitRate ==
    /\ settings \in RateSettings
    /\ now = 0
    /\ BreakerIdle
    /\ RateIdle
    /\ RequestsIdle
    /\ StoreIdle

\* total number of is_rate_limited calls made so far
RateCalls(log, S) ==
    LET RECURSIVE Sum(_)
        Sum(T) == IF T = {} THEN 0
                  ELSE LET c == CHOOSE x \in T : TRUE
                       IN  Len(log[c]) + Sum(T \ {c})
    IN  Sum(S)

CallIsRateLimited(c) ==
    LET res == is_rate_limited(zsets[c], expiry[c], settings, now)
    IN  /\ RateCalls(rl_log, Clients) < MaxRateCalls
        /\ zsets' = [zsets EXCEPT ![c] = res.zset]
        /\ expiry' = [expiry EXCEPT ![c] = res.expiry]
        /\ rl_log' = [rl_log EXCEPT ![c] = Append(@, now)]
        /\ rl_last' = [rl_last EXCEPT ![c] = res]
        /\ UNCHANGED <<settings, now, breakerVars, requestVars, storeVars>>

NextRate ==
    \/ Tick
    \/ \E c \in Clients : CallIsRateLimited(c)

SpecRate == InitRate /\ [][NextRate]_vars


(***************************************************************************)
(* retry_request called directly.  A call keeps all its state in locals,   *)
(* so calls do not interact: the specification follows a single call, by   *)
(* the first request.                                                      *)
(***************************************************************************)
InitRetry ==
    /\ settings \in [RATE_LIMIT_REQUESTS : {DEFAULT_RATE_LIMIT_REQUESTS},
                     RATE_LIMIT_WINDOW_SEC : {DEFAULT_RATE_LIMIT_WINDOW_SEC},
                     CIRCUIT_FAILURE_THRESHOLD : {DEFAULT_CIRCUIT_FAILURE_THRESHOLD},
                     CIRCUIT_RECOVERY_TIMEOUT : {DEFAULT_CIRCUIT_RECOVERY_TIMEOUT}]
    /\ now = 0
    /\ BreakerIdle
    /\ RateIdle
    /\ RequestsIdle
    /\ StoreIdle

\* requests are numbered in the order in which they arrive
NextToArrive(r) ==
    /\ req[r].pc = "idle"
    /\ \A p \in Requests : p < r => req[p].pc # "idle"

RetryCall(r, max_retries, base_delay) ==
    /\ NextToArrive(r)
    /\ \A p \in Requests : req[p].pc = "idle"
    /\ req' = [req EXCEPT ![r] = retry_begin(@, max_retries, base_delay)]
    /\ UNCHANGED <<settings, now, breakerVars, rateVars, finished, storeVars>>

RetryGetResponds(r, o) ==
    /\ req[r].pc = "get"
    /\ req' = [req EXCEPT ![r] = retry_step(@, o, now)]
    /\ UNCHANGED <<settings, now, breakerVars, rateVars, finished, storeVars>>

\* the sleep ends no earlier than wake_at
Wake(r) ==
    /\ req[r].pc = "sleep"
    /\ now' = IF now < req[r].wake_at THEN req[r].wake_at ELSE now
    /\ req' = [req EXCEPT ![r] = retry_wake(@)]
    /\ UNCHANGED <<settings, breakerVars, rateVars, finished, storeVars>>

NextRetry ==
    \/ Tick
    \/ \E r \in Requests, m \in 0..MaxRetries, b \in 0..MaxBaseDelay : RetryCall(r, m, b)
    \/ \E r \in Requests, o \in Outcomes : RetryGetResponds(r, o)
    \/ \E r \in Requests : Wake(r)

SpecRetry == InitRetry /\ [][NextRetry]_vars

\* client.get answers or fails within httpx's timeout, and a sleep ends
FairSpecRetry ==
    /\ SpecRetry
    /\ \A r \in Requests :
        /\ WF_vars(\E o \in Outcomes : RetryGetResponds(r, o))
        /\ WF_vars(Wake(r))



(***************************************************************************)
(* GET /proxy served for concurrent requests by one process: a request     *)
(* runs from one await to the next in a single step.                       *)
(***************************************************************************)
\* the failure threshold varies; the recovery timeout is the longest of
\* BreakerSettings
ProxySettings ==
    {cfg \in BreakerSettings : cfg.CIRCUIT_RECOVERY_TIMEOUT = MaxTimeout}

InitProxy ==
    /\ settings \in ProxySettings
    /\ now = 0
    /\ BreakerIdle
    /\ RateIdle
    /\ RequestsIdle
    /\ StoreIdle

\* a request that has ended is remembered in `finished` and leaves its slot;
\* for a request the breaker blocked, `post` is the store as the request left it
Settle(r, q) ==
    IF q.pc = "done"
    THEN /\ req' = [req EXCEPT ![r] = EndedRequest]
         /\ finished' = IF q.admitted = "blocked" THEN [q EXCEPT !.post = redis'] ELSE q
    ELSE /\ req' = [req EXCEPT ![r] = q]
         /\ finished' = finished

ProxyStart(r) ==
    LET res == proxy_start(req[r], redis, settings, now)
    IN  /\ NextToArrive(r)
        /\ IF res.req.retry = "none"
           THEN /\ redis' = res.store
                /\ Settle(r, res.req)
           ELSE LET fin == proxy_finish(res.req, res.store, settings, now)
                IN  /\ redis' = fin.store
                    /\ Settle(r, fin.req)
        /\ UNCHANGED <<settings, now, last, nfail, succeeded, last_fail_at, rateVars, storeVars>>

\* the rest of the handler once retry_request has ended
ProxyContinue(r, q) ==
    IF q.retry = "none"
    THEN /\ Settle(r, q)
         /\ redis' = redis
    ELSE LET fin == proxy_finish(q, redis, settings, now')
         IN  /\ Settle(r, fin.req)
             /\ redis' = fin.store

ProxyGetResponds(r, o) ==
    /\ req[r].pc = "get"
    /\ now' = now
    /\ ProxyContinue(r, retry_step(req[r], o, now))
    /\ UNCHANGED <<settings, last, nfail, succeeded, last_fail_at, rateVars, storeVars>>

ProxyWake(r) ==
    /\ req[r].pc = "sleep"
    /\ now' = IF now < req[r].wake_at THEN req[r].wake_at ELSE now
    /\ ProxyContinue(r, retry_wake(req[r]))
    /\ UNCHANGED <<settings, last, nfail, succeeded, last_fail_at, rateVars, storeVars>>

NextProxy ==
    \/ Tick
    \/ \E r \in Requests : ProxyStart(r)
    \/ \E r \in Requests, o \in Outcomes : ProxyGetResponds(r, o)
    \/ \E r \in Requests : ProxyWake(r)

SpecProxy == InitProxy /\ [][NextProxy]_vars


(***************************************************************************)
(* GET /proxy under a steady stream of requests: a request the breaker     *)
(* blocks ends at once and is followed by further requests, so only the    *)
(* admitted requests are counted against NumRequests.  Time advances and   *)
(* requests keep arriving.                                                 *)
(***************************************************************************)
\* the thresholds that fewer failing requests than NumRequests reach, so that
\* a request is left to arrive once the breaker has opened
RecoverySettings ==
    {cfg \in ProxySettings : cfg.CIRCUIT_FAILURE_THRESHOLD < NumRequests}

InitRecovery ==
    /\ settings \in RecoverySettings
    /\ now = 0
    /\ BreakerIdle
    /\ RateIdle
    /\ RequestsIdle
    /\ StoreIdle

ProxyArrive(r) ==
    LET res == proxy_start(req[r], redis, settings, now)
    IN  IF res.req.admitted = "blocked"
        THEN /\ NextToArrive(r)
             /\ redis' = res.store
             /\ req' = req
             /\ finished' = [res.req EXCEPT !.post = res.store]
             /\ UNCHANGED <<settings, now, last, nfail, succeeded, last_fail_at, rateVars, storeVars>>
        ELSE ProxyStart(r)

NextRecovery ==
    \/ Tick
    \/ \E r \in Requests : ProxyArrive(r)
    \/ \E r \in Requests, o \in Outcomes : ProxyGetResponds(r, o)
    \/ \E r \in Requests : ProxyWake(r)

SpecRecovery == InitRecovery /\ [][NextRecovery]_vars

FairSpecRecovery ==
    /\ SpecRecovery
    /\ WF_vars(Tick)
    /\ WF_vars(\E r \in Requests : ProxyArrive(r))


(***************************************************************************)
(* RequestContextMiddleware.dispatch (app/core/middleware.py) in front of  *)
(* GET /proxy.                                                             *)
(***************************************************************************)
\* dispatch that hands a rate-limited request to the handler all the same
dispatch_callnext(q, z, exp, cfg, t, client_ip, reachable) ==
    LET q0 == [q EXCEPT !.client = client_ip]
        res == is_rate_limited(z, exp, cfg, t)
    IN  IF ~reachable
        THEN [req |-> [q0 EXCEPT !.pc = "done", !.rate_limited = "error",
                                 !.status = 500, !.detail = "Internal Server Error"],
              zset |-> z, expiry |-> exp]
        ELSE [req |-> [q0 EXCEPT !.pc = "call_next",
                                 !.rate_limited = IF res.ret THEN "limited" ELSE "allowed"],
              zset |-> res.zset, expiry |-> res.expiry]

\* lines 14-30 for a request of client_ip at time t.  When the store cannot
\* be reached, pipeline.execute() raises redis.ConnectionError inside
\* is_rate_limited; nothing catches it there or in dispatch (the call is
\* outside the try block of line 29), so the request ends with the 500
\* of the server's error handler and the store is left as it was.
dispatch(q, z, exp, cfg, t, client_ip, reachable) ==
    LET q0 == [q EXCEPT !.client = client_ip]
        res == is_rate_limited(z, exp, cfg, t)
    IN  IF ~reachable
        THEN [req |-> [q0 EXCEPT !.pc = "done", !.rate_limited = "error",
                                 !.status = 500, !.detail = "Internal Server Error"],
              zset |-> z, expiry |-> exp]
        ELSE IF res.ret
        THEN [req |-> [q0 EXCEPT !.pc = "done", !.rate_limited = "limited",
                                 !.status = 429, !.detail = "Rate limit exceeded"],
              zset |-> res.zset, expiry |-> res.expiry]
        ELSE [req |-> [q0 EXCEPT !.pc = "call_next", !.rate_limited = "allowed"],
              zset |-> res.zset, expiry |-> res.expiry]

InitGateway ==
    /\ settings \in RateSettings
    /\ now = 0
    /\ BreakerIdle
    /\ RateIdle
    /\ RequestsIdle
    /\ StoreIdle

\* time passes; the clock is followed up to one second past the longest
\* window (a sleeping request may still move it further)
GatewayTick ==
    /\ now <= MaxWindow
    /\ Tick

\* a request of client c arrives while the store is reachable or not; the
\* requests are followed through the gateway one after the other
Dispatch(r, c, reachable) ==
    LET res == dispatch(req[r], zsets[c], expiry[c], settings, now, c, reachable)
    IN  /\ NextToArrive(r)
        /\ \A p \in Requests : req[p].pc \in {"idle", "done"}
        /\ zsets' = [zsets EXCEPT ![c] = res.zset]
        /\ expiry' = [expiry EXCEPT ![c] = res.expiry]
        /\ redis' = redis
        /\ Settle(r, res.req)
        /\ UNCHANGED <<settings, now, last, nfail, succeeded, last_fail_at, rl_log, rl_last, storeVars>>

\* line 30: call_next(request) enters the route handler
CallNext(r) ==
    LET res == proxy_start(req[r], redis, settings, now)
    IN  /\ req[r].pc = "call_next"
        /\ IF res.req.retry = "none"
           THEN /\ redis' = res.store
                /\ Settle(r, res.req)
           ELSE LET fin == proxy_finish(res.req, res.store, settings, now)
                IN  /\ redis' = fin.store
                    /\ Settle(r, fin.req)
        /\ UNCHANGED <<settings, now, last, nfail, succeeded, last_fail_at, rateVars, storeVars>>

NextGateway ==
    \/ GatewayTick
    \/ \E r \in Requests, c \in Clients, reachable \in BOOLEAN : Dispatch(r, c, reachable)
    \/ \E r \in Requests : CallNext(r)
    \/ \E r \in Requests, o \in Outcomes : ProxyGetResponds(r, o)
    \/ \E r \in Requests : ProxyWake(r)

SpecGateway == InitGateway /\ [][NextGateway]_vars


(***************************************************************************)
(* The breaker of one service called by concurrent processes.  Every       *)
(* redis_client call of circuit_breaker.py is one step, so the calls of    *)
(* different processes interleave between any two store operations.        *)
(***************************************************************************)
StoreSettings == {cfg \in BreakerSettings : cfg.CIRCUIT_RECOVERY_TIMEOUT = 1}

InitStore ==
    /\ settings \in StoreSettings
    /\ now = 0
    /\ BreakerIdle
    /\ RateIdle
    /\ RequestsIdle
    /\ StoreIdle

\* time passes while the processes run
StoreTick ==
    /\ now < MaxStoreTime
    /\ Tick

\* a record_failure call that found the breaker HALF_OPEN
Tracked(c) == c.op = "record_failure" /\ c.pre.state_key = "HALF_OPEN"

\* the other processes, told that process p touches the store
Others(p) ==
    [q \in Callers |->
        IF q # p /\ Tracked(caller[q])
        THEN [caller[q] EXCEPT !.alone = FALSE]
        ELSE caller[q]]

\* process p begins a call; the processes are alike, so of the idle ones the
\* first takes the call
Begins(p) ==
    /\ caller[p].pc = "idle"
    /\ \A q \in Callers : q < p => caller[q].pc # "idle"
    /\ ncalls < MaxStoreCalls
    /\ ncalls' = ncalls + 1

\* process p is inside a call, about to make the store operation named pc
Continues(p, pc) ==
    /\ caller[p].pc = pc
    /\ ncalls' = ncalls

\* the call c of process p returns; `ended` keeps the record_failure calls
\* that found the breaker HALF_OPEN and on which no other process intruded
Returns(p, c) ==
    /\ caller' = [Others(p) EXCEPT ![p] = IdleCaller]
    /\ ended' = IF Tracked(c) /\ c.alone
                THEN [op |-> c.op, pre |-> c.pre, post |-> redis', at |-> now,
                      value |-> c.value]
                ELSE ended

\* line 16: state = redis_client.get(state_key)
IsOpenGetState(p) ==
    LET c == [IdleCaller EXCEPT !.op = "is_open"]
    IN  /\ Begins(p)
        /\ redis' = redis
        /\ opened' = opened
        /\ IF redis_get(redis, "state_key") = "OPEN"
           THEN /\ caller' = [Others(p) EXCEPT ![p] = [c EXCEPT !.pc = "get_opened_at"]]
                /\ ended' = ended
           ELSE Returns(p, c)
        /\ UNCHANGED <<settings, now, last, nfail, succeeded, last_fail_at, rateVars, requestVars>>

\* lines 19-22: opened_at = redis_client.get(opened_at_key) and the test on it
IsOpenGetOpenedAt(p) ==
    /\ Continues(p, "get_opened_at")
    /\ redis' = redis
    /\ opened' = opened
    /\ IF timeout_elapsed(redis_get(redis, "opened_at_key"), settings, now)
       THEN /\ caller' = [Others(p) EXCEPT ![p] = [caller[p] EXCEPT !.pc = "set_half_open"]]
            /\ ended' = ended
       ELSE Returns(p, caller[p])
    /\ UNCHANGED <<settings, now, last, nfail, succeeded, last_fail_at, rateVars, requestVars>>

\* lines 23-24: redis_client.set(state_key, "HALF_OPEN"); return False
IsOpenSetHalfOpen(p) ==
    /\ Continues(p, "set_half_open")
    /\ redis' = redis_set(redis, "state_key", "HALF_OPEN")
    /\ opened' = opened
    /\ Returns(p, caller[p])
    /\ UNCHANGED <<settings, now, last, nfail, succeeded, last_fail_at, rateVars, requestVars>>

\* lines 30-32: failures = redis_client.incr(failure_key) and the test on it
RecordFailureIncr(p) ==
    LET inc == redis_incr(redis, "failure_key")
        c0 == [IdleCaller EXCEPT
                  !.op = "record_failure",
                  !.clean = \A q \in Callers : caller[q].op # "record_success"]
        c == IF redis_get(redis, "state_key") = "HALF_OPEN"
             THEN [c0 EXCEPT !.pre = redis, !.value = inc.value]
             ELSE c0
    IN  /\ Begins(p)
        /\ redis' = inc.store
        /\ opened' = opened
        /\ IF threshold_reached(inc.value, settings)
           THEN /\ caller' = [Others(p) EXCEPT ![p] = [c EXCEPT !.pc = "set_open"]]
                /\ ended' = ended
           ELSE Returns(p, c)
        /\ UNCHANGED <<settings, now, last, nfail, succeeded, last_fail_at, rateVars, requestVars>>

\* line 33: redis_client.set(state_key, "OPEN")
RecordFailureSetOpen(p) ==
    /\ Continues(p, "set_open")
    /\ redis' = redis_set(redis, "state_key", "OPEN")
    /\ opened' = opened
    /\ caller' = [Others(p) EXCEPT ![p] = [caller[p] EXCEPT !.pc = "set_opened_at"]]
    /\ ended' = ended
    /\ UNCHANGED <<settings, now, last, nfail, succeeded, last_fail_at, rateVars, requestVars>>

\* line 34: redis_client.set(opened_at_key, time.time())
RecordFailureSetOpenedAt(p) ==
    /\ Continues(p, "set_opened_at")
    /\ redis' = redis_set(redis, "opened_at_key", Str(now))
    /\ opened' = [set |-> TRUE, at |-> now, clean |-> caller[p].clean]
    /\ Returns(p, caller[p])
    /\ UNCHANGED <<settings, now, last, nfail, succeeded, last_fail_at, rateVars, requestVars>>

\* line 37: redis_client.set(failure_key, 0)
RecordSuccessSetFailures(p) ==
    LET c == [IdleCaller EXCEPT !.op = "record_success", !.pc = "set_closed"]
    IN  /\ Begins(p)
        /\ redis' = redis_set(redis, "failure_key", Str(0))
        /\ opened' = [opened EXCEPT !.clean = FALSE]
        /\ caller' = [q \in Callers |->
                          IF q = p THEN c
                          ELSE IF caller[q].op = "record_failure"
                               THEN [Others(p)[q] EXCEPT !.clean = FALSE]
                               ELSE caller[q]]
        /\ ended' = ended
        /\ UNCHANGED <<settings, now, last, nfail, succeeded, last_fail_at, rateVars, requestVars>>

\* line 38: redis_client.set(state_key, "CLOSED")
RecordSuccessSetClosed(p) ==
    /\ Continues(p, "set_closed")
    /\ redis' = redis_set(redis, "state_key", "CLOSED")
    /\ opened' = opened
    /\ Returns(p, caller[p])
    /\ UNCHANGED <<settings, now, last, nfail, succeeded, last_fail_at, rateVars, requestVars>>

NextStore ==
    \/ StoreTick
    \/ \E p \in Callers : IsOpenGetState(p)
    \/ \E p \in Callers : IsOpenGetOpenedAt(p)
    \/ \E p \in Callers : IsOpenSetHalfOpen(p)
    \/ \E p \in Callers : RecordFailureIncr(p)
    \/ \E p \in Callers : RecordFailureSetOpen(p)
    \/ \E p \in Callers : RecordFailureSetOpenedAt(p)
    \/ \E p \in Callers : RecordSuccessSetFailures(p)
    \/ \E p \in Callers : RecordSuccessSetClosed(p)

SpecStore == InitStore /\ [][NextStore]_vars


(***************************************************************************)
(* Recovery of an open breaker (FairSpecRecovery).                         *)
(***************************************************************************)
\* the breaker is OPEN, the clock can still pass the recovery timeout that
\* runs from its opened_at, and a further request can be admitted
OpenCanRecover ==
    /\ redis.state_key = "OPEN"
    /\ Truthy(redis.opened_at_key)
    /\ Num(redis.opened_at_key) + settings.CIRCUIT_RECOVERY_TIMEOUT < MaxTime
    /\ \E r \in Requests : req[r].pc = "idle"

\* a request arriving later than CIRCUIT_RECOVERY_TIMEOUT after opened_at is
\* not blocked
LateArrivalAdmitted ==
    (/\ redis.state_key = "OPEN"
     /\ timeout_elapsed(redis.opened_at_key, settings, now))
    => ~(finished' # finished /\ finished'.admitted = "blocked")

\* C17: an open breaker recovers.  A request that arrives more than
\* CIRCUIT_RECOVERY_TIMEOUT after opened_at is admitted; and, time advancing
\* and requests arriving, the breaker does not stay OPEN forever: from every
\* state in which it is OPEN the state leaves OPEN (or a late record_failure
\* has moved opened_at so far that the timeout ends beyond MaxTime).
C17_OpenRecovers ==
    /\ [][LateArrivalAdmitted]_vars
    /\ OpenCanRecover ~> ~OpenCanRecover

\* a request was admitted past the timeout and is calling the downstream
C17_Witness ==
    /\ redis.state_key = "HALF_OPEN"
    /\ now - Num(redis.opened_at_key) > settings.CIRCUIT_RECOVERY_TIMEOUT
    /\ finished.admitted = "blocked"
    /\ \E r \in Requests : req[r].pc = "get" /\ req[r].admitted = "admitted"

(***************************************************************************)
(* Properties of the middleware (SpecGateway).                             *)
(***************************************************************************)
\* C12: a request for which is_rate_limited returned true is answered 429
\* 'Rate limit exceeded' and never reaches the route handler: the breaker is
\* not asked, no bookkeeping call and no downstream call is made.  A request
\* for which it returned false is passed to the handler, which answers it.
C12_LimitedNeverReachesHandler ==
    /\ finished.rate_limited = "limited" =>
            /\ finished.status = 429
            /\ finished.detail = "Rate limit exceeded"
            /\ finished.admitted = "pending"
            /\ finished.retry = "none"
            /\ finished.outcomes = <<>>
            /\ finished.n_record_failure = 0
            /\ finished.n_record_success = 0
    /\ finished.rate_limited = "allowed" =>
            /\ finished.admitted # "pending"
            /\ finished.status \in {200, 503}
    /\ \A r \in Requests :
            /\ req[r].rate_limited # "limited"
            /\ req[r].rate_limited = "allowed"
               => (req[r].pc = "call_next" \/ req[r].admitted = "admitted")

C12_Witness ==
    /\ finished.rate_limited = "limited"
    /\ finished.status = 429
    /\ settings.RATE_LIMIT_REQUESTS = 1
    /\ zcard(zsets[finished.client]) = 2

\* C13: a request whose rate-limit check could not reach the store is
\* treated as allowed: it is passed to the handler and is answered neither
\* 429 nor with a server error.
C13_FailOpen ==
    /\ finished.rate_limited = "error" =>
            /\ finished.admitted # "pending"
            /\ finished.status \notin {429, 500}
    /\ \A r \in Requests :
            req[r].rate_limited = "error"
            => (req[r].pc = "call_next" \/ req[r].admitted = "admitted")

(***************************************************************************)
(* Properties of the breaker under concurrent processes (SpecStore).       *)
(***************************************************************************)
\* C14: a record_failure call that finds the breaker HALF_OPEN increments
\* the failure count; it re-opens the breaker (state OPEN, opened_at set to
\* the time of the call) when the count it reaches is at least
\* CIRCUIT_FAILURE_THRESHOLD, and leaves the state HALF_OPEN and opened_at
\* alone when the count stays below the threshold.  (`ended` is a
\* record_failure call during which no other process touched the store.)
C14_HalfOpenFailure ==
    (ended.op = "record_failure" /\ ended.pre.state_key = "HALF_OPEN") =>
        /\ ended.value = Num(ended.pre.failure_key) + 1
        /\ ended.post.failure_key = Str(ended.value)
        /\ IF ended.value >= settings.CIRCUIT_FAILURE_THRESHOLD
           THEN /\ ended.post.state_key = "OPEN"
                /\ ended.post.opened_at_key = Str(ended.at)
           ELSE /\ ended.post.state_key = "HALF_OPEN"
                /\ ended.post.opened_at_key = ended.pre.opened_at_key

\* a failure below the threshold that left the breaker HALF_OPEN
C14_Witness ==
    /\ ended.op = "record_failure"
    /\ ended.pre.state_key = "HALF_OPEN"
    /\ ended.value < settings.CIRCUIT_FAILURE_THRESHOLD
    /\ ended.post.state_key = "HALF_OPEN"

\* C15: in every reachable state of the store, the states between the
\* store writes of concurrent record_failure, is_open and record_success
\* calls included, state = OPEN implies that opened_at is set.
C15_OpenHasOpenedAt ==
    redis.state_key = "OPEN" => redis.opened_at_key # NoValue

\* C16: once a record_failure call whose INCR returned at least
\* CIRCUIT_FAILURE_THRESHOLD has completed, with no record_success under way
\* at its INCR or begun since, the store holds state OPEN and the opened_at
\* of that call for as long as no more than CIRCUIT_RECOVERY_TIMEOUT has
\* passed since it.
C16_NoLostUpdate ==
    (/\ opened.set
     /\ opened.clean
     /\ now - opened.at <= settings.CIRCUIT_RECOVERY_TIMEOUT)
    => /\ redis.state_key = "OPEN"
       /\ redis.opened_at_key = Str(opened.at)

(***************************************************************************)
(* Properties of proxy_request (SpecProxy).  `finished` is the request     *)
(* that ended most recently, so an invariant about it speaks of every      *)
(* request at the moment it ends.                                          *)
(***************************************************************************)
\* C9: a request for which is_open() returned true fails with 503
\* circuit_breaker_open; retry_request is not entered and no downstream call
\* is made; neither record_failure nor record_success is called; the store is
\* left as the request found it.
C9_OpenShortCircuits ==
    finished.admitted = "blocked" =>
        /\ finished.status = 503
        /\ finished.detail = "circuit_breaker_open"
        /\ finished.retry = "none"
        /\ finished.outcomes = <<>>
        /\ finished.n_record_failure = 0
        /\ finished.n_record_success = 0
        /\ finished.post = finished.pre

C9_Witness ==
    /\ finished.admitted = "blocked"
    /\ finished.pre.state_key = "OPEN"
    /\ finished.status = 503

\* the downstream's last answer to the request was a response below 500
AnsweredBelow500(q) ==
    /\ q.outcomes # <<>>
    /\ IsResponse(q.outcomes[Len(q.outcomes)])
    /\ q.outcomes[Len(q.outcomes)].status < 500

\* C10: a request admitted by the breaker makes exactly one bookkeeping call:
\* one record_success and no record_failure when the downstream answered
\* below 500, one record_failure and no record_success when it answered 500
\* or more or the attempt raised.
C10_ExactlyOneBookkeeping ==
    finished.admitted = "admitted" =>
        IF AnsweredBelow500(finished)
        THEN finished.n_record_success = 1 /\ finished.n_record_failure = 0
        ELSE finished.n_record_failure = 1 /\ finished.n_record_success = 0

\* the downstream's last answer to the request was a response of 500 or more
Answered500OrMore(q) ==
    /\ q.outcomes # <<>>
    /\ IsResponse(q.outcomes[Len(q.outcomes)])
    /\ q.outcomes[Len(q.outcomes)].status >= 500

\* C11: proxy_request answers 200 when the downstream answered below 500,
\* 502 when the downstream answered 500 or more, and 503 when the breaker was
\* open or the downstream call failed at transport level after all retries.
\* (Answers below 500 whose body response.json() cannot decode are the case
\* of C10 and are left out here.)
C11_StatusMapping ==
    (/\ finished.pc = "done"
     /\ ~(AnsweredBelow500(finished) /\ finished.response.body # "json"))
    => finished.status =
            IF finished.admitted = "blocked" THEN 503
            ELSE IF AnsweredBelow500(finished) THEN 200
            ELSE IF Answered500OrMore(finished) THEN 502
            ELSE 503

(***************************************************************************)
(* Properties of retry_request (SpecRetry, FairSpecRetry).                 *)
(***************************************************************************)
\* C6: a response with status >= 500 received while attempts remain is
\* handled like a transport failure: the executor waits
\* base_delay * 2^attempt and then tries again.
C6_ServerErrorRetried ==
    \A r \in Requests :
        LET q == req[r]
            n == Len(q.outcomes)
        IN  (/\ n >= 1
             /\ n < q.max_retries
             /\ IsResponse(q.outcomes[n])
             /\ q.outcomes[n].status >= 500)
            => /\ q.pc \in {"sleep", "get"}
               /\ Len(q.waits) = n
               /\ q.waits[n] = q.base_delay * (2 ^ (n - 1))

\* C7: a response with status < 500 (4xx included) ends retry_request on the
\* attempt on which it arrives: it is the last downstream call, it is the
\* value returned, and the only waits are those that preceded it.
C7_SuccessReturnedAtOnce ==
    \A r \in Requests :
        LET q == req[r]
        IN  \A i \in 1..Len(q.outcomes) :
                (IsResponse(q.outcomes[i]) /\ q.outcomes[i].status < 500)
                => /\ i = Len(q.outcomes)
                   /\ q.pc = "done"
                   /\ q.retry = "returned"
                   /\ q.response = q.outcomes[i]
                   /\ Len(q.waits) = i - 1

C7_Witness ==
    \E r \in Requests :
        /\ Len(req[r].outcomes) = 2
        /\ req[r].outcomes[1] = RequestError
        /\ req[r].outcomes[2].status = 404
        /\ req[r].max_retries = 3
        /\ req[r].retry = "returned"

\* the state part of C8
C8_Bounded ==
    \A r \in Requests :
        LET q == req[r]
        IN  (q.pc # "idle" /\ q.max_retries >= 1)
            => /\ Len(q.outcomes) <= q.max_retries
               /\ Len(q.waits) <= q.max_retries - 1
               /\ \A i \in 1..Len(q.waits) : q.waits[i] = q.base_delay * (2 ^ (i - 1))
               /\ \A i \in 2..Len(q.waits) : q.waits[i - 1] <= q.waits[i]
               /\ (/\ Len(q.outcomes) = q.max_retries
                   /\ \A i \in 1..Len(q.outcomes) : q.outcomes[i] = RequestError)
                  => /\ q.pc = "done"
                     /\ q.retry = "raised"
                     /\ q.raised = [type |-> "RequestError", attempt |-> q.max_retries - 1]
                     /\ Len(q.waits) = q.max_retries - 1

\* C8: for max_retries >= 1, retry_request makes at most max_retries
\* downstream calls and then ends; its waits are base_delay * 2^i for
\* i = 0, 1, ..., at most max_retries - 1 of them (none after the final
\* attempt), in non-decreasing order; when every attempt fails at transport
\* level it raises the error of the last attempt.
C8_BoundedRetries ==
    /\ []C8_Bounded
    /\ \A r \in Requests : (req[r].pc # "idle") ~> (req[r].pc = "done")

C8_Witness ==
    \E r \in Requests :
        /\ req[r].max_retries = 3
        /\ req[r].base_delay = 2
        /\ req[r].outcomes = <<RequestError, RequestError, RequestError>>
        /\ req[r].waits = <<2, 4>>
        /\ req[r].retry = "raised"
        /\ req[r].raised = [type |-> "RequestError", attempt |-> 2]

(***************************************************************************)
(* Properties of the rate limiter (SpecRate).                              *)
(***************************************************************************)
\* number of calls of client c in the trailing window that ends with its
\* latest call, that call included, allowed or not
CallsInWindow(c) ==
    LET log == rl_log[c]
        t == log[Len(log)]
    IN  Cardinality({i \in 1..Len(log) : log[i] > t - settings.RATE_LIMIT_WINDOW_SEC})

\* C5: a call is allowed exactly when the number of calls by that client in the
\* trailing window of RATE_LIMIT_WINDOW_SEC seconds, the call itself and
\* earlier rejected calls included, is at most RATE_LIMIT_REQUESTS.
C5_AllowedIffWindowCount ==
    \A c \in Clients :
        rl_log[c] # <<>> =>
            (rl_last[c].ret = FALSE <=> CallsInWindow(c) <= settings.RATE_LIMIT_REQUESTS)

\* the seconds of the trailing window that ends with the latest call of
\* client c in which c made at least one call
SecondsInWindow(c) ==
    LET log == rl_log[c]
        t == log[Len(log)]
    IN  {log[i] : i \in {j \in 1..Len(log) : log[j] > t - settings.RATE_LIMIT_WINDOW_SEC}}

\* C19: the count is_rate_limited compares with RATE_LIMIT_REQUESTS is the
\* number of distinct whole seconds of the trailing window in which the client
\* made at least one call; it never exceeds RATE_LIMIT_WINDOW_SEC, so with
\* RATE_LIMIT_REQUESTS >= RATE_LIMIT_WINDOW_SEC no call is ever rate-limited.
C19_CountsDistinctSeconds ==
    \A c \in Clients :
        rl_log[c] # <<>> =>
            /\ rl_last[c].count = Cardinality(SecondsInWindow(c))
            /\ rl_last[c].count <= settings.RATE_LIMIT_WINDOW_SEC
            /\ settings.RATE_LIMIT_REQUESTS >= settings.RATE_LIMIT_WINDOW_SEC
               => rl_last[c].ret = FALSE

C19_Witness ==
    \E c \in Clients :
        /\ settings.RATE_LIMIT_REQUESTS = 2
        /\ settings.RATE_LIMIT_WINDOW_SEC = 2
        /\ Len(rl_log[c]) = 4
        /\ rl_log[c][3] = rl_log[c][4]
        /\ CallsInWindow(c) = 4
        /\ rl_last[c].count = 2
        /\ rl_last[c].ret = FALSE

(***************************************************************************)
(* Properties of the breaker's methods called one at a time (SpecBreaker). *)
(* `last` is the most recent call and only calls write the store, so       *)
(* `redis` is the store as that call left it.                              *)
(***************************************************************************)
Elapsed(call) == call.at - Num(call.pre.opened_at_key)

\* C1: on a fresh service with no record_success so far, is_open() returns
\* false after k < CIRCUIT_FAILURE_THRESHOLD record_failure calls (k = 0
\* included) and returns true after exactly CIRCUIT_FAILURE_THRESHOLD of them
\* when it is asked no later than CIRCUIT_RECOVERY_TIMEOUT after the last one.
C1_OpensAtThreshold ==
    (last.op = "is_open" /\ ~succeeded) =>
        /\ nfail < settings.CIRCUIT_FAILURE_THRESHOLD => last.ret = FALSE
        /\ (/\ nfail = settings.CIRCUIT_FAILURE_THRESHOLD
            /\ last.at - last_fail_at <= settings.CIRCUIT_RECOVERY_TIMEOUT)
           => last.ret = TRUE

C1_Witness ==
    /\ last.op = "is_open"
    /\ ~succeeded
    /\ settings.CIRCUIT_FAILURE_THRESHOLD = 3
    /\ nfail = 3
    /\ last.at - last_fail_at = settings.CIRCUIT_RECOVERY_TIMEOUT
    /\ last.ret = TRUE

\* C2: an is_open() call that finds the state OPEN no more than
\* CIRCUIT_RECOVERY_TIMEOUT after opened_at returns true and leaves every key
\* of the store as it was.
C2_OpenBlocksWithoutWrite ==
    (/\ last.op = "is_open"
     /\ last.pre.state_key = "OPEN"
     /\ Truthy(last.pre.opened_at_key)
     /\ Elapsed(last) <= settings.CIRCUIT_RECOVERY_TIMEOUT)
    => (last.ret = TRUE /\ redis = last.pre)

C2_Witness ==
    /\ last.op = "is_open"
    /\ last.pre.state_key = "OPEN"
    /\ Truthy(last.pre.opened_at_key)
    /\ Elapsed(last) = settings.CIRCUIT_RECOVERY_TIMEOUT
    /\ last.ret = TRUE

\* C3: an is_open() call that finds the state OPEN more than
\* CIRCUIT_RECOVERY_TIMEOUT after opened_at returns false and leaves the state
\* HALF_OPEN; an is_open() call that finds the state HALF_OPEN returns false
\* and leaves it HALF_OPEN.
C3_HalfOpenAfterTimeout ==
    /\ (/\ last.op = "is_open"
        /\ last.pre.state_key = "OPEN"
        /\ Truthy(last.pre.opened_at_key)
        /\ Elapsed(last) > settings.CIRCUIT_RECOVERY_TIMEOUT)
       => (last.ret = FALSE /\ redis.state_key = "HALF_OPEN")
    /\ (last.op = "is_open" /\ last.pre.state_key = "HALF_OPEN")
       => (last.ret = FALSE /\ redis.state_key = "HALF_OPEN")

C3_Witness ==
    /\ last.op = "is_open"
    /\ last.pre.state_key = "OPEN"
    /\ Truthy(last.pre.opened_at_key)
    /\ Elapsed(last) = settings.CIRCUIT_RECOVERY_TIMEOUT + 1
    /\ last.ret = FALSE
    /\ redis.state_key = "HALF_OPEN"

\* C4: whatever the state and the failure count before it, a record_success()
\* call leaves failure_count = 0 and state = CLOSED.
C4_SuccessResets ==
    last.op = "record_success" =>
        (redis.failure_key = Str(0) /\ redis.state_key = "CLOSED")

C4_Witness ==
    /\ last.op = "record_success"
    /\ last.pre.state_key = "HALF_OPEN"
    /\ Num(last.pre.failure_key) >= settings.CIRCUIT_FAILURE_THRESHOLD
    /\ redis.state_key = "CLOSED"

\* C18: the OPEN -> HALF_OPEN move of is_open() changes only the state key:
\* the failure count (and opened_at) stay as they were.  So when calls do not
\* interleave, the first record_failure() after the breaker became HALF_OPEN
\* finds a count already at the threshold and re-opens the breaker at once,
\* with opened_at set to the time of that call.
C18_HalfOpenKeepsCount ==
    /\ (last.op = "is_open" /\ last.pre.state_key = "OPEN" /\ last.ret = FALSE)
       => /\ redis.state_key = "HALF_OPEN"
          /\ redis.failure_key = last.pre.failure_key
          /\ redis.opened_at_key = last.pre.opened_at_key
    /\ (last.op = "record_failure" /\ last.pre.state_key = "HALF_OPEN")
       => /\ Num(last.pre.failure_key) >= settings.CIRCUIT_FAILURE_THRESHOLD
          /\ redis.state_key = "OPEN"
          /\ redis.opened_at_key = Str(last.at)

C18_Witness ==
    /\ last.op = "record_failure"
    /\ last.pre.state_key = "HALF_OPEN"
    /\ last.at > Num(last.pre.opened_at_key)
    /\ redis.state_key = "OPEN"
    /\ redis.opened_at_key = Str(last.at)

=============================================================================
